---------------------------- MODULE Spec2Model ----------------------------
(***************************************************************************)
(* HR Copilot serverless function: the three handler variants found in     *)
(* the repository and the linear LangGraph pipeline each of them runs.     *)
(*                                                                         *)
(*   "main"       src/src/main.js   lines  18-307 (default handler)        *)
(*   "enhanced"   src/src/main.js   lines 308-657 (appwriteFunction)       *)
(*   "simplified" src/unnamed/part_000 lines 16-242 (default handler)      *)
(*                                                                         *)
(* Spec runs invocations of one of them one after the other; SpecClassify  *)
(* runs the categorize node on a wide set of queries; SpecInterleaved has  *)
(* several invocations of the first handler in flight at once;            *)
(* SpecHandlers adds the document-QA handler of src/unnamed/part_001      *)
(* (variant "docqa").                                                      *)
(*                                                                         *)
(* JavaScript strings are TLA+ strings; an optional value (undefined or a  *)
(* value) is None or Some(v).                                              *)
(***************************************************************************)
EXTENDS Integers, Sequences, FiniteSets, TLC

VARIABLES
    variant,      \* which handler variant is deployed
    hrCopilot,    \* main: module-level `let hrCopilot = null` (0 = null)
    constructed,  \* number of pipelines compiled so far (object identities)
    llamaIndex,   \* main: LlamaIndexTool.index of the module-level pipeline
    requests,     \* invocations received so far
    pc,           \* position of the current invocation
    req,          \* the request of the current invocation
    res,          \* the response sent by the current invocation
    agent,        \* the pipeline object the current invocation invokes
    input,        \* the initial state handed to hrCopilot.invoke
    state,        \* the accumulating pipeline state (the graph's channels)
    steps,        \* nodes executed by the current run, in order
    completed,    \* nodes that returned (did not throw)
    writes,       \* per channel, the nodes that wrote it, in order
    calls,        \* per collaborator, calls made by the current invocation
    outcome,      \* what each knowledge source did when it was queried
    toolret,      \* what each retriever's _call returned
    agents,       \* AIAgentManager.agents of the current invocation
    tickets,      \* TicketManagementSystem.tickets of the current invocation
    running,      \* main: invocations in flight at once, each with its position
    attempts      \* requests the chat model client has sent for the call in flight

vars == << variant, hrCopilot, constructed, llamaIndex, requests, pc, req, res,
           agent, input, state, steps, completed, writes, calls, outcome,
           toolret, agents, tickets, running, attempts >>

-----------------------------------------------------------------------------
(* Bounds *)

\* fragments concatenated to build the classifier's input strings
MaxFrags == 2
\* invocations served by one warm function instance
MaxRequests == 2
\* distinct values of Date.now() seen by createTicket
MaxClock == 2
\* invocations of the main handler in flight at the same time
MaxInvocations == 2
\* model calls of one run of the document-QA agent executor
MaxIterations == 2

-----------------------------------------------------------------------------
(* Optional values *)

None == << >>
Some(v) == << v >>
Get(o) == o[1]

-----------------------------------------------------------------------------
(* String.prototype.toLowerCase and String.prototype.includes *)

UpperCase ==
    << "A", "B", "C", "D", "E", "F", "G", "H", "I", "J", "K", "L", "M",
       "N", "O", "P", "Q", "R", "S", "T", "U", "V", "W", "X", "Y", "Z" >>

LowerCase ==
    << "a", "b", "c", "d", "e", "f", "g", "h", "i", "j", "k", "l", "m",
       "n", "o", "p", "q", "r", "s", "t", "u", "v", "w", "x", "y", "z" >>

ToLowerChar(c) ==
    IF \E i \in 1..Len(UpperCase) : UpperCase[i] = c
    THEN LowerCase[CHOOSE i \in 1..Len(UpperCase) : UpperCase[i] = c]
    ELSE c

RECURSIVE toLowerCase(_)
toLowerCase(s) ==
    IF Len(s) = 0 THEN ""
    ELSE ToLowerChar(SubSeq(s, 1, 1)) \o toLowerCase(SubSeq(s, 2, Len(s)))

includes(s, sub) ==
    \E i \in 1..(Len(s) - Len(sub) + 1) : SubSeq(s, i, i + Len(sub) - 1) = sub

-----------------------------------------------------------------------------
(* HRInputProcessingTool._call, one definition per variant.  The argument   *)
(* is the query string; a query that is undefined makes toLowerCase throw   *)
(* (see categorize below).                                                  *)

HRInputProcessingToolMain(query) ==
    LET lowercaseInput == toLowerCase(query) IN
    IF includes(lowercaseInput, "policy") \/ includes(lowercaseInput, "handbook")
    THEN "POLICY"
    ELSE IF includes(lowercaseInput, "leave") \/ includes(lowercaseInput, "vacation")
    THEN "LEAVE"
    ELSE IF includes(lowercaseInput, "salary") \/ includes(lowercaseInput, "compensation")
    THEN "COMPENSATION"
    ELSE IF includes(lowercaseInput, "training") \/ includes(lowercaseInput, "development")
    THEN "TRAINING"
    ELSE "GENERAL"

HRInputProcessingToolEnhanced(query) ==
    LET lowercaseInput == toLowerCase(query) IN
    IF includes(lowercaseInput, "policy") \/ includes(lowercaseInput, "handbook")
    THEN "POLICY"
    ELSE IF includes(lowercaseInput, "leave") \/ includes(lowercaseInput, "vacation")
    THEN "LEAVE"
    ELSE IF includes(lowercaseInput, "salary") \/ includes(lowercaseInput, "compensation")
    THEN "COMPENSATION"
    ELSE "GENERAL"

HRInputProcessingToolSimplified(query) ==
    LET lowercaseInput == toLowerCase(query) IN
    IF includes(lowercaseInput, "policy") \/ includes(lowercaseInput, "handbook")
    THEN "POLICY"
    ELSE IF includes(lowercaseInput, "leave") \/ includes(lowercaseInput, "vacation")
    THEN "LEAVE"
    ELSE IF includes(lowercaseInput, "salary") \/ includes(lowercaseInput, "compensation")
    THEN "COMPENSATION"
    ELSE "GENERAL"

\* mutant: the LEAVE rule is tested before the POLICY rule
HRInputProcessingToolLeaveFirst(v, query) ==
    LET lowercaseInput == toLowerCase(query) IN
    IF includes(lowercaseInput, "leave") \/ includes(lowercaseInput, "vacation")
    THEN "LEAVE"
    ELSE IF includes(lowercaseInput, "policy") \/ includes(lowercaseInput, "handbook")
    THEN "POLICY"
    ELSE IF includes(lowercaseInput, "salary") \/ includes(lowercaseInput, "compensation")
    THEN "COMPENSATION"
    ELSE IF v = "main" /\ (includes(lowercaseInput, "training")
                             \/ includes(lowercaseInput, "development"))
    THEN "TRAINING"
    ELSE "GENERAL"

HRInputProcessingTool(v, query) ==
    CASE v = "main"       -> HRInputProcessingToolMain(query)
      [] v = "enhanced"   -> HRInputProcessingToolEnhanced(query)
      [] v = "simplified" -> HRInputProcessingToolSimplified(query)


-----------------------------------------------------------------------------
(* Sentinel strings of the retrievers *)

NotFound == "No relevant information found."
PineconeError == "Error retrieving information from Pinecone"
LlamaIndexError == "Error retrieving information from LlamaIndex"

DocText == "Employees get 20 days annual leave."

-----------------------------------------------------------------------------
(* The Pinecone knowledge source, as seen from inside the try block: one of *)
(* the awaited calls throws, or index.query answers with a list of matches. *)
(* A match may lack metadata, its metadata may lack text, and the text may  *)
(* be the empty string.  The first main.js variant does not import          *)
(* HuggingFaceTransformersEmbeddings, so as that file stands its constructor *)
(* call is the one that throws; the model keeps every outcome for every     *)
(* variant.                                                                 *)

PineconeThrows ==
    { [kind |-> "throws", at |-> a] :
        a \in {"new HuggingFaceTransformersEmbeddings", "embedQuery", "index.query"} }

PineconeResponses ==
    { [kind |-> "response", matches |-> m] :
        m \in { << >>,
                << [metadata |-> None] >>,
                << [metadata |-> Some([text |-> None])] >>,
                << [metadata |-> Some([text |-> Some("")])] >>,
                << [metadata |-> Some([text |-> Some(DocText)])] >> } }

PineconeOutcomes == PineconeThrows \cup PineconeResponses

\* queryResponse.matches[0]?.metadata?.text
TopMatchText(queryResponse) ==
    IF Len(queryResponse.matches) = 0 THEN None
    ELSE LET metadata == queryResponse.matches[1].metadata IN
         IF metadata = None THEN None ELSE Get(metadata).text

\* JavaScript truthiness of an optional string
Truthy(o) == o # None /\ Get(o) # ""

\* PineconeQueryTool._call of the main variant
PineconeQueryTool(out) ==
    IF out.kind = "throws" THEN PineconeError
    ELSE IF Truthy(TopMatchText(out)) THEN Get(TopMatchText(out))
    ELSE NotFound

\* queryPinecone of the enhanced and simplified variants
queryPinecone(out) ==
    IF out.kind = "throws" THEN PineconeError
    ELSE IF Truthy(TopMatchText(out)) THEN Get(TopMatchText(out))
    ELSE NotFound

PineconeCall(v, out) ==
    IF v = "main" THEN PineconeQueryTool(out) ELSE queryPinecone(out)

-----------------------------------------------------------------------------
(* The LlamaIndex knowledge source.  init is what index initialisation did  *)
(* ("skipped" when the main variant already holds an index), query is what  *)
(* the query engine did.  The engine's answer is free text produced by an   *)
(* external model; when the engine retrieved nothing for the query, the     *)
(* answer is the engine's own empty-response text.                          *)

EmptyResponse == "Empty Response"

EngineTexts == { DocText, NotFound, EmptyResponse }

LlamaQueries ==
    { [query |-> "throws", text |-> None] } \cup
    { [query |-> "answers", text |-> Some(t)] : t \in EngineTexts }

\* LlamaOutcomesMain without the test `if (!this.index)`: every call initialises
LlamaOutcomesMainAlwaysInit(index) ==
    { [init |-> i, query |-> "not reached", text |-> None] :
        i \in {"fetchDocumentsFromAppwrite throws", "fromDocuments throws"} }
    \cup { [init |-> "ok", query |-> q.query, text |-> q.text] : q \in LlamaQueries }

\* main: fetchDocumentsFromAppwrite rethrows, VectorStoreIndex.fromDocuments
\* may throw; both reject initialize().
LlamaOutcomesMain(index) ==
    IF index = "unset"
    THEN { [init |-> i, query |-> "not reached", text |-> None] :
             i \in {"fetchDocumentsFromAppwrite throws", "fromDocuments throws"} }
         \cup { [init |-> "ok", query |-> q.query, text |-> q.text] : q \in LlamaQueries }
    ELSE { [init |-> "skipped", query |-> q.query, text |-> q.text] : q \in LlamaQueries }

\* enhanced: the constructor starts initializeLlamaIndex without awaiting it;
\* when _call runs, this.queryEngine is set or it is still undefined (the
\* initialisation is pending or has rejected; what the runtime does with that
\* unhandled rejection is not modelled).
LlamaOutcomesEnhanced ==
    { [init |-> "queryEngine undefined", query |-> "not reached", text |-> None] }
    \cup { [init |-> "ok", query |-> q.query, text |-> q.text] : q \in LlamaQueries }

\* LlamaIndexTool._call of the main variant: the value returned
LlamaIndexToolMain(out) ==
    IF out.init \notin {"ok", "skipped"} THEN LlamaIndexError
    ELSE IF out.query = "throws" THEN LlamaIndexError
    ELSE Get(out.text)

\* LlamaIndexTool.initialize: this.index after the call
LlamaIndexAfter(index, out) ==
    IF index = "unset" /\ out.init = "ok" THEN "built" ELSE index

\* LlamaIndexTool._call of the enhanced variant
LlamaIndexToolEnhanced(out) ==
    IF out.init # "ok" THEN LlamaIndexError
    ELSE IF out.query = "throws" THEN LlamaIndexError
    ELSE Get(out.text)

-----------------------------------------------------------------------------
(* The generative backend behind chain.invoke *)

ContactHRText == "I don't have sufficient data. Please Contact HR for more details."

ModelOutcomes ==
    { [throws |-> TRUE, message |-> "429 quota exceeded", text |-> None] } \cup
    { [throws |-> FALSE, message |-> "", text |-> Some(t)] :
        t \in { DocText, ContactHRText } }

-----------------------------------------------------------------------------
(* Requests *)

Variants == { "main", "enhanced", "simplified" }

PipelineQueries ==
    { "What is our leave policy?", "asdkjasd", "vacation days", "My Salary",
      "Training plan", "" }

EmployeeContexts ==
    { None,
      Some([department |-> "Engineering", role |-> "Developer", tenure |-> "2 years"]) }

Histories ==
    { None,
      Some(<< >>),
      Some(<< [role |-> "user", content |-> "Hi"],
              [role |-> "assistant", content |-> "Hello, how can I help?"] >>) }

\* req.body (main) or JSON.parse(req.payload) (enhanced, simplified); a field
\* the caller left out is None.
Bodies ==
    [ query : {None} \cup { Some(q) : q \in PipelineQueries },
      employee_context : EmployeeContexts,
      conversation_history : Histories ]

\* body = None: req.body is undefined, or req.payload is not JSON
Requests ==
    [ method : {"POST", "GET"}, body : {None} \cup { Some(b) : b \in Bodies } ]

-----------------------------------------------------------------------------
(* The state graph: channels, nodes and edges *)

Channels ==
    { "query", "category", "pinecone_result", "llamaindex_result",
      "employee_context", "conversation_history", "final_response" }

EmptyState == [ c \in Channels |-> None ]

\* the object literal handed to hrCopilot.invoke
InvokeInputMain(body) ==
    [ EmptyState EXCEPT !.query = body.query,
                        !.employee_context = body.employee_context,
                        !.conversation_history = body.conversation_history ]

InvokeInputEnhanced(body) ==
    [ EmptyState EXCEPT !.query = body.query,
                        !.employee_context = body.employee_context,
                        !.conversation_history = Some(<< >>) ]

InvokeInputSimplified(body) ==
    [ EmptyState EXCEPT !.query = body.query ]

InvokeInput(v, body) ==
    CASE v = "main"       -> InvokeInputMain(body)
      [] v = "enhanced"   -> InvokeInputEnhanced(body)
      [] v = "simplified" -> InvokeInputSimplified(body)

Returns(update) == [ ok |-> TRUE, update |-> update ]
Throws(message) == [ ok |-> FALSE, error |-> message ]

fetch_employee_contextMain(st) ==
    Returns([ employee_context |-> st.employee_context ])

fetch_employee_contextEnhanced(st) ==
    IF st.employee_context = None
    THEN Throws("Cannot read properties of undefined (reading 'department')")
    ELSE LET ec == Get(st.employee_context) IN
         Returns([ employee_context |->
                     Some([ department |-> ec.department,
                            role |-> ec.role,
                            tenure |-> ec.tenure ]) ])

fetch_employee_context(v, st) ==
    IF v = "main" THEN fetch_employee_contextMain(st)
    ELSE fetch_employee_contextEnhanced(st)

categorize(v, st) ==
    IF st.query = None
    THEN Throws("Cannot read properties of undefined (reading 'toLowerCase')")
    ELSE Returns([ category |-> Some(HRInputProcessingTool(v, Get(st.query))) ])

\* mutant: the retriever's exception leaves the node
pinecone_queryPropagates(v, out) ==
    IF out.kind = "throws" THEN Throws("Error querying Pinecone")
    ELSE Returns([ pinecone_result |-> Some(PineconeCall(v, out)) ])

\* mutant: the node returns its result under the wrong key
pinecone_queryWritesFinalResponse(v, out) ==
    Returns([ final_response |-> Some(PineconeCall(v, out)) ])

pinecone_query(v, out) ==
    Returns([ pinecone_result |-> Some(PineconeCall(v, out)) ])

llamaindex_query(v, out) ==
    Returns([ llamaindex_result |->
                Some(IF v = "main" THEN LlamaIndexToolMain(out)
                     ELSE LlamaIndexToolEnhanced(out)) ])

\* mutant: the node also returns a category
respondOverwritesCategory(out) ==
    IF out.throws THEN Throws(out.message)
    ELSE Returns([ final_response |-> out.text, category |-> Some("GENERAL") ])

\* mutant: the node catches the backend's error and answers with a text
respondSwallowsError(out) ==
    IF out.throws THEN Returns([ final_response |-> Some("Sorry, something went wrong.") ])
    ELSE Returns([ final_response |-> out.text ])

\* chain.invoke(state) is outside any try block of the node
respond(out) ==
    IF out.throws THEN Throws(out.message)
    ELSE Returns([ final_response |-> out.text ])

\* mutant: the old entries are not spread into the new array
update_conversation_historyDropsOld(st) ==
    IF st.conversation_history = None
    THEN Throws("state.conversation_history is not iterable")
    ELSE Returns([ conversation_history |->
                     Some(<< [role |-> "user", content |-> Get(st.query)],
                             [role |-> "assistant",
                              content |-> Get(st.final_response)] >>) ])

update_conversation_history(st) ==
    IF st.conversation_history = None
    THEN Throws("state.conversation_history is not iterable")
    ELSE Returns([ conversation_history |->
                     Some(Get(st.conversation_history) \o
                          << [role |-> "user", content |-> Get(st.query)],
                             [role |-> "assistant",
                              content |-> Get(st.final_response)] >>) ])

\* mutant: the edge out of pinecone_query skips llamaindex_query
EdgesMainSkipsLlamaIndex ==
    [ fetch_employee_context |-> "categorize",
      categorize |-> "pinecone_query",
      pinecone_query |-> "respond",
      llamaindex_query |-> "respond",
      respond |-> "update_conversation_history",
      update_conversation_history |-> "END" ]

EdgesMain ==
    [ fetch_employee_context |-> "categorize",
      categorize |-> "pinecone_query",
      pinecone_query |-> "llamaindex_query",
      llamaindex_query |-> "respond",
      respond |-> "update_conversation_history",
      update_conversation_history |-> "END" ]

\* mutant: the two retriever nodes are wired in the other order
EdgesEnhancedSwapped ==
    [ fetch_employee_context |-> "categorize",
      categorize |-> "llamaindex_query",
      llamaindex_query |-> "pinecone_query",
      pinecone_query |-> "respond",
      respond |-> "update_conversation_history",
      update_conversation_history |-> "END" ]

EdgesEnhanced ==
    [ fetch_employee_context |-> "categorize",
      categorize |-> "pinecone_query",
      pinecone_query |-> "llamaindex_query",
      llamaindex_query |-> "respond",
      respond |-> "update_conversation_history",
      update_conversation_history |-> "END" ]

EdgesSimplified ==
    [ categorize |-> "pinecone_query",
      pinecone_query |-> "respond",
      respond |-> "END" ]

Edges(v) ==
    CASE v = "main"       -> EdgesMain
      [] v = "enhanced"   -> EdgesEnhanced
      [] v = "simplified" -> EdgesSimplified

\* the tools array of createEnhancedHRCopilotAgent / createHRCopilotAgent
Tools(v) ==
    IF v = "simplified"
    THEN << "HR Input Processing", "Pinecone Query" >>
    ELSE << "HR Input Processing", "Pinecone Query", "LlamaIndex Query" >>

EntryPoint(v) ==
    IF v = "simplified" THEN "categorize" ELSE "fetch_employee_context"

\* the partial update a node returns, merged into the state
Merge(st, update) ==
    [ c \in Channels |-> IF c \in DOMAIN update THEN update[c] ELSE st[c] ]

Written(w, update, node) ==
    [ c \in Channels |-> IF c \in DOMAIN update THEN Append(w[c], node) ELSE w[c] ]

-----------------------------------------------------------------------------
(* Responses of the handlers *)

MethodNotAllowed ==
    [ status |-> 405, body |-> [ status |-> 405, message |-> "Method Not Allowed" ] ]

SuccessMain(result) ==
    [ status |-> 200,
      body |-> [ status |-> 200, message |-> "Success",
                 final_response |-> result.final_response,
                 category |-> result.category ] ]

SuccessEnhanced(result, ticketId) ==
    [ status |-> 200,
      body |-> [ result |-> result.final_response,
                 category |-> result.category,
                 pinecone_result |-> result.pinecone_result,
                 llamaindex_result |-> result.llamaindex_result,
                 employee_context |-> result.employee_context,
                 conversation_history |-> result.conversation_history,
                 ticketId |-> ticketId ] ]

SuccessSimplified(result, ticketId) ==
    [ status |-> 200,
      body |-> [ result |-> result.final_response,
                 category |-> result.category,
                 pinecone_result |-> result.pinecone_result,
                 ticketId |-> ticketId ] ]

\* the catch block of the handler
Failure(v, message) ==
    IF v = "main"
    THEN [ status |-> 500,
           body |-> [ status |-> 500, message |-> "Internal Server Error",
                      error |-> message ] ]
    ELSE [ status |-> 500,
           body |-> [ error |-> "An error occurred while processing your request.",
                      details |-> message ] ]

-----------------------------------------------------------------------------
(* AIAgentManager and TicketManagementSystem (enhanced, simplified) *)

AgentTypes(v) ==
    IF v = "enhanced"
    THEN ( "HR Input Processing" :> "categorization" @@
           "Pinecone Query" :> "knowledge_base" @@
           "LlamaIndex Query" :> "knowledge_base" )
    ELSE ( "HR Input Processing" :> "categorization" @@
           "Pinecone Query" :> "knowledge_base" )

\* new AIAgentManager() followed by the addAgent calls of the handler
addAgents(v) ==
    [ n \in DOMAIN AgentTypes(v) |->
        [ type |-> AgentTypes(v)[n], status |-> "active", metrics |-> None ] ]

updateAgentMetrics(ag, name) ==
    IF name \in DOMAIN ag
    THEN [ ag EXCEPT ![name].metrics = Some([ queries_processed |-> 1 ]) ]
    ELSE ag

createTicket(description, priority, now) ==
    [ id |-> << "TICKET-", now >>, description |-> description,
      status |-> "open", priority |-> priority, updates |-> << >> ]

-----------------------------------------------------------------------------
(* Initial state: a cold function instance, no invocation yet *)

NoCalls ==
    [ construct |-> 0, classify |-> 0, pinecone |-> 0, llamaindex |-> 0,
      model |-> 0, createTicket |-> 0 ]

NoOutcome == [ pinecone |-> None, llamaindex |-> None, model |-> None ]

NoReturn == [ pinecone |-> None, llamaindex |-> None ]

\* no invocation is in flight: none has arrived, none holds a pipeline object
NoneRunning ==
    [ i \in 1..MaxInvocations |->
        [ pc |-> "idle", built |-> 0, pipeline |-> 0, status |-> 0 ] ]

NoWrites == [ c \in Channels |-> << >> ]

\* a cold function instance
ColdInstance ==
    /\ hrCopilot = 0
    /\ constructed = 0
    /\ llamaIndex = "unset"
    /\ requests = 0
    /\ pc = "idle"
    /\ req = None
    /\ res = None
    /\ agent = 0
    /\ input = None
    /\ state = EmptyState
    /\ steps = << >>
    /\ completed = {}
    /\ writes = NoWrites
    /\ calls = NoCalls
    /\ outcome = NoOutcome
    /\ toolret = NoReturn
    /\ agents = << >>
    /\ tickets = {}
    /\ running = NoneRunning
    /\ attempts = 0

Init == variant \in Variants /\ ColdInstance

-----------------------------------------------------------------------------
(* The handlers *)

\* main: `if (req.method !== 'POST')`; enhanced and simplified have no such test
MethodAllowed(v, method) ==
    IF v = "main" THEN method = "POST" ELSE TRUE

\* The handler is entered with request r and runs to its first await.
Handler(r) ==
    /\ variant \in Variants
    /\ pc \in {"idle", "responded", "rejected"}
    /\ requests < MaxRequests
    /\ requests' = requests + 1
    /\ req' = Some(r)
    /\ agent' = 0
    /\ input' = None
    /\ state' = EmptyState
    /\ steps' = << >>
    /\ completed' = {}
    /\ writes' = NoWrites
    /\ calls' = NoCalls
    /\ outcome' = NoOutcome
    /\ toolret' = NoReturn
    /\ tickets' = {}
    /\ IF ~MethodAllowed(variant, r.method)
       THEN /\ res' = Some(MethodNotAllowed)
            /\ pc' = "responded"
            /\ agents' = << >>
       ELSE /\ res' = None
            /\ pc' = IF variant = "main" THEN "initialize" ELSE "setup_pinecone"
            /\ agents' = << >>
    /\ UNCHANGED << running, attempts,
                    variant, hrCopilot, constructed, llamaIndex >>

HandlerEntry == \E r \in Requests : Handler(r)

\* enhanced, simplified: `await setupPinecone()` and the agent manager's set-up
\* come before the try block; when the Pinecone constructor throws, the
\* handler's promise rejects and the handler sends no response.
SetupPinecone ==
    /\ pc = "setup_pinecone"
    /\ \E ok \in BOOLEAN :
         IF ok
         THEN /\ pc' = "create_agent"
              /\ agents' = addAgents(variant)
         ELSE /\ pc' = "rejected"
              /\ agents' = agents
    /\ UNCHANGED << running, attempts,
                    variant, hrCopilot, constructed, llamaIndex, requests, req, res,
                    agent, input, state, steps, completed, writes, calls, outcome,
                    toolret, tickets >>

\* main: initialize(), the test `if (!hrCopilot)`
Initialize ==
    /\ pc = "initialize"
    /\ pc' = IF hrCopilot = 0 THEN "create_agent" ELSE "invoke"
    /\ UNCHANGED << running, attempts,
                    variant, hrCopilot, constructed, llamaIndex, requests, req, res,
                    agent, input, state, steps, completed, writes, calls, outcome,
                    toolret, agents, tickets >>

\* main: setupPinecone and createEnhancedHRCopilotAgent inside initialize();
\* enhanced, simplified: createEnhancedHRCopilotAgent / createHRCopilotAgent.
\* A pipeline is compiled, or a client constructor rejects its configuration
\* and the exception reaches the handler's catch block.
CreateAgent ==
    /\ pc = "create_agent"
    /\ calls' = [ calls EXCEPT !.construct = @ + 1 ]
    /\ \E ok \in BOOLEAN :
         IF ok
         THEN /\ constructed' = constructed + 1
              /\ hrCopilot' = IF variant = "main" THEN constructed + 1 ELSE hrCopilot
              /\ agent' = IF variant = "main" THEN agent ELSE constructed + 1
              /\ llamaIndex' = IF variant = "main" THEN "unset" ELSE llamaIndex
              /\ res' = res
              /\ pc' = "invoke"
         ELSE /\ res' = Some(Failure(variant, "Please set an API key for Google GenerativeAI"))
              /\ pc' = "responded"
              /\ UNCHANGED << constructed, hrCopilot, agent, llamaIndex >>
    /\ UNCHANGED << running, attempts,
                    variant, requests, req, input, state, steps, completed, writes,
                    outcome, toolret, agents, tickets >>

\* The request body is destructured and hrCopilot.invoke is called with the
\* initial state.
Invoke ==
    /\ pc = "invoke"
    /\ IF Get(req).body = None
       THEN /\ res' = Some(Failure(variant, "request body is undefined or not JSON"))
            /\ pc' = "responded"
            /\ UNCHANGED << agent, input, state >>
       ELSE /\ agent' = IF variant = "main" THEN hrCopilot ELSE agent
            /\ input' = Some(InvokeInput(variant, Get(Get(req).body)))
            /\ state' = InvokeInput(variant, Get(Get(req).body))
            /\ pc' = EntryPoint(variant)
            /\ res' = res
    /\ UNCHANGED << running, attempts,
                    variant, hrCopilot, constructed, llamaIndex, requests, req, steps,
                    completed, writes, calls, outcome, toolret, agents, tickets >>

-----------------------------------------------------------------------------
(* The pipeline: one action per node *)

\* A node has run with the given result: its update is merged and the edge is
\* followed, or its exception leaves invoke and reaches the handler's catch.
RunNode(node, result) ==
    /\ steps' = Append(steps, node)
    /\ IF result.ok
       THEN /\ state' = Merge(state, result.update)
            /\ writes' = Written(writes, result.update, node)
            /\ completed' = completed \cup {node}
            /\ pc' = Edges(variant)[node]
            /\ res' = res
       ELSE /\ res' = Some(Failure(variant, result.error))
            /\ pc' = "responded"
            /\ UNCHANGED << state, writes, completed >>

FetchEmployeeContext ==
    /\ pc = "fetch_employee_context"
    /\ RunNode("fetch_employee_context", fetch_employee_context(variant, state))
    /\ UNCHANGED << running, attempts,
                    variant, hrCopilot, constructed, llamaIndex, requests, req, agent,
                    input, calls, outcome, toolret, agents, tickets >>

Categorize ==
    /\ pc = "categorize"
    /\ RunNode("categorize", categorize(variant, state))
    /\ calls' = [ calls EXCEPT !.classify = @ + 1 ]
    /\ agents' = IF variant # "main" /\ categorize(variant, state).ok
                 THEN updateAgentMetrics(agents, "HR Input Processing")
                 ELSE agents
    /\ UNCHANGED << running, attempts,
                    variant, hrCopilot, constructed, llamaIndex, requests, req, agent,
                    input, outcome, toolret, tickets >>

PineconeQuery ==
    /\ pc = "pinecone_query"
    /\ \E out \in PineconeOutcomes :
         /\ RunNode("pinecone_query", pinecone_query(variant, out))
         /\ outcome' = [ outcome EXCEPT !.pinecone = Some(out) ]
         /\ toolret' = [ toolret EXCEPT !.pinecone = Some(PineconeCall(variant, out)) ]
    /\ calls' = [ calls EXCEPT !.pinecone = @ + 1 ]
    /\ agents' = IF variant # "main"
                 THEN updateAgentMetrics(agents, "Pinecone Query")
                 ELSE agents
    /\ UNCHANGED << running, attempts,
                    variant, hrCopilot, constructed, llamaIndex, requests, req, agent,
                    input, tickets >>

LlamaIndexQuery ==
    /\ pc = "llamaindex_query"
    /\ \E out \in IF variant = "main" THEN LlamaOutcomesMain(llamaIndex)
                  ELSE LlamaOutcomesEnhanced :
         /\ RunNode("llamaindex_query", llamaindex_query(variant, out))
         /\ outcome' = [ outcome EXCEPT !.llamaindex = Some(out) ]
         /\ toolret' = [ toolret EXCEPT !.llamaindex =
                           Some(IF variant = "main" THEN LlamaIndexToolMain(out)
                                ELSE LlamaIndexToolEnhanced(out)) ]
         /\ llamaIndex' = IF variant = "main" THEN LlamaIndexAfter(llamaIndex, out)
                          ELSE llamaIndex
    /\ calls' = [ calls EXCEPT !.llamaindex = @ + 1 ]
    /\ agents' = IF variant # "main"
                 THEN updateAgentMetrics(agents, "LlamaIndex Query")
                 ELSE agents
    /\ UNCHANGED << running, attempts,
                    variant, hrCopilot, constructed, requests, req, agent, input,
                    tickets >>

Respond ==
    /\ pc = "respond"
    /\ \E out \in ModelOutcomes :
         /\ RunNode("respond", respond(out))
         /\ outcome' = [ outcome EXCEPT !.model = Some(out) ]
    /\ calls' = [ calls EXCEPT !.model = @ + 1 ]
    /\ UNCHANGED << running, attempts,
                    variant, hrCopilot, constructed, llamaIndex, requests, req, agent,
                    input, toolret, agents, tickets >>

UpdateConversationHistory ==
    /\ pc = "update_conversation_history"
    /\ RunNode("update_conversation_history", update_conversation_history(state))
    /\ UNCHANGED << running, attempts,
                    variant, hrCopilot, constructed, llamaIndex, requests, req, agent,
                    input, calls, outcome, toolret, agents, tickets >>

-----------------------------------------------------------------------------
(* After invoke has returned the final state *)

\* result.final_response.toLowerCase().includes("contact hr")
NeedsTicket(result) ==
    includes(toLowerCase(Get(result.final_response)), "contact hr")

SuccessOf(v, result, ticketId) ==
    CASE v = "main"       -> SuccessMain(result)
      [] v = "enhanced"   -> SuccessEnhanced(result, ticketId)
      [] v = "simplified" -> SuccessSimplified(result, ticketId)

Finish ==
    /\ pc = "END"
    /\ pc' = "responded"
    /\ IF variant # "main" /\ NeedsTicket(state)
       THEN \E now \in 1..MaxClock :
              LET ticket == createTicket("Query requires human assistance: "
                                           \o Get(state.query), "high", now)
              IN /\ tickets' = {ticket}
                 /\ calls' = [ calls EXCEPT !.createTicket = @ + 1 ]
                 /\ res' = Some(SuccessOf(variant, state, Some(ticket.id)))
       ELSE /\ res' = Some(SuccessOf(variant, state, None))
            /\ UNCHANGED << tickets, calls >>
    /\ UNCHANGED << running, attempts,
                    variant, hrCopilot, constructed, llamaIndex, requests, req, agent,
                    input, state, steps, completed, writes, outcome, toolret, agents >>

Next ==
    \/ HandlerEntry
    \/ SetupPinecone
    \/ Initialize
    \/ CreateAgent
    \/ Invoke
    \/ FetchEmployeeContext
    \/ Categorize
    \/ PineconeQuery
    \/ LlamaIndexQuery
    \/ Respond
    \/ UpdateConversationHistory
    \/ Finish

Spec == Init /\ [][Next]_vars

-----------------------------------------------------------------------------
(* The document-QA handler of src/unnamed/part_001 (lines 44-154): variant *)
(* "docqa".  It builds its clients and an agent executor on every          *)
(* invocation, calls its retriever tool once itself and then runs the      *)
(* agent, whose chat model is configured with maxRetries.  part_001 does   *)
(* not import PineconeStore, Tool or the agent helpers, so as that file    *)
(* stands the set-up always throws; the model keeps the success outcome.   *)

\* new ChatGoogleGenerativeAI({ ..., maxRetries: 2, ... })
maxRetries == 2

\* the chat model client sends the request again after a failed attempt while
\* the attempts made do not exceed maxRetries
ShouldRetryAlways(attemptsMade) == TRUE

ShouldRetry(attemptsMade) == attemptsMade <= maxRetries

DocQAQuestions == { None, Some("What is the total budget?") }

DocQARequests ==
    [ method : { "POST", "GET" },
      body : { None } \cup { Some([ question |-> q ]) : q \in DocQAQuestions } ]

DocQANotFound == "No relevant information found in the budget document."

\* retriever.getRelevantDocuments throws or answers with documents
RetrieverOutcomes ==
    { [kind |-> "throws", docs |-> << >>] } \cup
    { [kind |-> "documents", docs |-> d] :
        d \in { << >>, << "Total budget: 10" >>,
                << "Total budget: 10", "Travel: 2" >> } }

\* Array.prototype.join
RECURSIVE join(_, _)
join(arr, sep) ==
    IF Len(arr) = 0 THEN ""
    ELSE IF Len(arr) = 1 THEN arr[1]
    ELSE arr[1] \o sep \o join(Tail(arr), sep)

\* VectorStoreQATool._call, given documents
VectorStoreQATool(results) ==
    IF Len(results) = 0 THEN DocQANotFound ELSE join(results, "\n\n")

\* the template literal handed to agentExecutor.invoke
AgentInput(question, toolResult) ==
    "Based on the following information from the budget document, "
      \o (IF question = None THEN "undefined" ELSE Get(question))
      \o "\n\nDocument content: " \o toolResult

\* one request of the chat model client: it fails with an error the client
\* retries, fails with one it does not retry, or the model answers with the
\* final output or with a call of the VectorStoreQA tool
ChatModelOutcomes ==
    { [kind |-> "error", text |-> "503 Service Unavailable"],
      [kind |-> "rejected", text |-> "400 API key not valid"],
      [kind |-> "finish", text |-> "The total budget is 10."],
      [kind |-> "function_call", text |-> "total budget"] }

DocQASuccess(output) == [ status |-> 200, body |-> [ answer |-> output ] ]

DocQAFailure(message) ==
    [ status |-> 500,
      body |-> [ error |-> "Internal Server Error", details |-> message ] ]

\* The handler is entered; the method is not looked at.
DocQAHandler(r) ==
    /\ variant = "docqa"
    /\ pc \in {"idle", "responded"}
    /\ requests < MaxRequests
    /\ requests' = requests + 1
    /\ req' = Some(r)
    /\ res' = None
    /\ pc' = "docqa_setup"
    /\ input' = None
    /\ calls' = NoCalls
    /\ outcome' = NoOutcome
    /\ toolret' = NoReturn
    /\ attempts' = 0
    /\ UNCHANGED << running, variant, hrCopilot, constructed, llamaIndex, agent,
                    state, steps, completed, writes, agents, tickets >>

DocQAHandlerEntry == \E r \in DocQARequests : DocQAHandler(r)

\* Lines 58-135: the clients, the vector store, the tool, the agent and its
\* executor are built, then req.body.question is read.
DocQASetup ==
    /\ pc = "docqa_setup"
    /\ calls' = [ calls EXCEPT !.construct = @ + 1 ]
    /\ \E ok \in BOOLEAN :
         IF ~ok
         THEN /\ res' = Some(DocQAFailure("PineconeStore is not defined"))
              /\ pc' = "responded"
              /\ UNCHANGED << constructed, agent >>
         ELSE IF Get(req).body = None
         THEN /\ res' = Some(DocQAFailure("Cannot read properties of undefined (reading 'question')"))
              /\ pc' = "responded"
              /\ constructed' = constructed + 1
              /\ agent' = constructed + 1
         ELSE /\ res' = res
              /\ pc' = "docqa_forced_tool"
              /\ constructed' = constructed + 1
              /\ agent' = constructed + 1
    /\ UNCHANGED << running, attempts, variant, hrCopilot, llamaIndex, requests,
                    req, input, state, steps, completed, writes, outcome, toolret,
                    agents, tickets >>

\* Line 138: the handler calls vectorStoreQATool._call itself; line 142 then
\* starts agentExecutor.invoke.  _call has no try block.
DocQAForcedTool ==
    /\ pc = "docqa_forced_tool"
    /\ calls' = [ calls EXCEPT !.pinecone = @ + 1 ]
    /\ \E out \in RetrieverOutcomes :
         /\ outcome' = [ outcome EXCEPT !.pinecone = Some(out) ]
         /\ IF out.kind = "throws"
            THEN /\ res' = Some(DocQAFailure("PineconeConnectionError"))
                 /\ pc' = "responded"
                 /\ UNCHANGED << toolret, input >>
            ELSE /\ toolret' = [ toolret EXCEPT
                                   !.pinecone = Some(VectorStoreQATool(out.docs)) ]
                 /\ input' = Some(AgentInput(Get(Get(req).body).question,
                                             VectorStoreQATool(out.docs)))
                 /\ pc' = "docqa_model"
                 /\ res' = res
    /\ UNCHANGED << running, attempts, variant, hrCopilot, constructed, llamaIndex,
                    requests, req, agent, state, steps, completed, writes, agents,
                    tickets >>

\* One request sent by the chat model client for the agent's current model
\* call.  A failed request is sent again while ShouldRetry allows; otherwise
\* the error leaves agentExecutor.invoke and reaches the catch block.
DocQAModel ==
    /\ pc = "docqa_model"
    /\ attempts' = attempts + 1
    /\ calls' = IF attempts = 0 THEN [ calls EXCEPT !.model = @ + 1 ] ELSE calls
    /\ \E out \in ChatModelOutcomes :
         /\ out.kind = "function_call" => calls'.model < MaxIterations
         /\ outcome' = [ outcome EXCEPT !.model = Some(out) ]
         /\ IF out.kind = "error" /\ ShouldRetry(attempts + 1)
            THEN /\ pc' = "docqa_model"
                 /\ res' = res
            ELSE IF out.kind \in {"error", "rejected"}
            THEN /\ pc' = "responded"
                 /\ res' = Some(DocQAFailure(out.text))
            ELSE IF out.kind = "finish"
            THEN /\ pc' = "responded"
                 /\ res' = Some(DocQASuccess(out.text))
            ELSE /\ pc' = "docqa_agent_tool"
                 /\ res' = res
    /\ UNCHANGED << running, variant, hrCopilot, constructed, llamaIndex, requests,
                    req, agent, input, state, steps, completed, writes, toolret,
                    agents, tickets >>

\* The agent executor runs the tool the model asked for and calls the model
\* again with the observation.
DocQAAgentTool ==
    /\ pc = "docqa_agent_tool"
    /\ calls' = [ calls EXCEPT !.pinecone = @ + 1 ]
    /\ \E out \in RetrieverOutcomes :
         /\ outcome' = [ outcome EXCEPT !.pinecone = Some(out) ]
         /\ IF out.kind = "throws"
            THEN /\ res' = Some(DocQAFailure("PineconeConnectionError"))
                 /\ pc' = "responded"
                 /\ UNCHANGED << toolret, attempts >>
            ELSE /\ toolret' = [ toolret EXCEPT
                                   !.pinecone = Some(VectorStoreQATool(out.docs)) ]
                 /\ attempts' = 0
                 /\ pc' = "docqa_model"
                 /\ res' = res
    /\ UNCHANGED << running, variant, hrCopilot, constructed, llamaIndex, requests,
                    req, agent, input, state, steps, completed, writes, agents,
                    tickets >>

\* every handler of the repository that calls a generative backend
Handlers == Variants \cup { "docqa" }

InitHandlers == variant \in Handlers /\ ColdInstance

NextHandlers ==
    \/ HandlerEntry
    \/ SetupPinecone
    \/ Initialize
    \/ CreateAgent
    \/ Invoke
    \/ FetchEmployeeContext
    \/ Categorize
    \/ PineconeQuery
    \/ LlamaIndexQuery
    \/ Respond
    \/ UpdateConversationHistory
    \/ Finish
    \/ DocQAHandlerEntry
    \/ DocQASetup
    \/ DocQAForcedTool
    \/ DocQAModel
    \/ DocQAAgentTool

SpecHandlers == InitHandlers /\ [][NextHandlers]_vars

-----------------------------------------------------------------------------
(* The classifier on a wide set of query strings.  The initial states are   *)
(* those of a first POST invocation that has reached the categorize node    *)
(* (pipeline compiled, initial state built, fetch_employee_context run      *)
(* where the variant has it); the only action is the categorize node.       *)

Frags ==
    { "policy", "Handbook", "LEAVE", "vacation", "Salary", "compensation",
      "training", "DEVELOPMENT", "polic", "y", " ", "asdkjasd", "Contact HR" }

RECURSIVE QueriesOfLen(_)
QueriesOfLen(n) ==
    IF n = 0 THEN { "" }
    ELSE { q \o f : q \in QueriesOfLen(n - 1), f \in Frags }

Queries == UNION { QueriesOfLen(n) : n \in 0..MaxFrags }

ClassifyBody(q) ==
    [ query |-> Some(q),
      employee_context |->
        Some([department |-> "Engineering", role |-> "Developer", tenure |-> "2 years"]),
      conversation_history |-> Some(<< >>) ]

AtCategorize(v, q) ==
    LET in == InvokeInput(v, ClassifyBody(q))
        first == fetch_employee_context(v, in)
    IN /\ variant = v
       /\ hrCopilot = IF v = "main" THEN 1 ELSE 0
       /\ constructed = 1
       /\ llamaIndex = "unset"
       /\ requests = 1
       /\ pc = "categorize"
       /\ req = Some([ method |-> "POST", body |-> Some(ClassifyBody(q)) ])
       /\ res = None
       /\ agent = 1
       /\ input = Some(in)
       /\ state = IF v = "simplified" THEN in ELSE Merge(in, first.update)
       /\ steps = IF v = "simplified" THEN << >> ELSE << "fetch_employee_context" >>
       /\ completed = IF v = "simplified" THEN {} ELSE { "fetch_employee_context" }
       /\ writes = IF v = "simplified" THEN NoWrites
                   ELSE Written(NoWrites, first.update, "fetch_employee_context")
       /\ calls = [ NoCalls EXCEPT !.construct = 1 ]
       /\ outcome = NoOutcome
       /\ toolret = NoReturn
       /\ agents = IF v = "main" THEN << >> ELSE addAgents(v)
       /\ tickets = {}
       /\ running = NoneRunning
       /\ attempts = 0

InitClassify == \E v \in Variants : \E q \in Queries : AtCategorize(v, q)

NextClassify == Categorize

SpecClassify == InitClassify /\ [][NextClassify]_vars

-----------------------------------------------------------------------------
(* The first main.js handler with several invocations in flight at once.   *)
(* Each invocation runs from one await to the next in one step; between    *)
(* those steps the others may run.  Only what the invocations share is      *)
(* followed here: the module-level hrCopilot and the pipeline objects       *)
(* compiled; the run of a pipeline is one step that settles.               *)

\* everything the interleaved invocations leave alone
sequentialVars ==
    << variant, llamaIndex, requests, pc, req, res, agent, input, state, steps,
       completed, writes, calls, outcome, toolret, agents, tickets, attempts >>

\* invocation i is entered: the method test, then initialize() up to its first
\* await (the test `if (!hrCopilot)` and the call of setupPinecone)
InterleavedHandler(i, method) ==
    /\ running[i].pc = "idle"
    /\ running' =
         [ running EXCEPT ![i] =
             IF method # "POST"
             THEN [ @ EXCEPT !.pc = "responded", !.status = 405 ]
             ELSE IF hrCopilot = 0
             THEN [ @ EXCEPT !.pc = "await setupPinecone" ]
             ELSE [ @ EXCEPT !.pc = "await initialize" ] ]
    /\ UNCHANGED << hrCopilot, constructed >>
    /\ UNCHANGED sequentialVars

InterleavedHandlerEntry ==
    \E i \in 1..MaxInvocations : \E method \in {"POST", "GET"} :
        InterleavedHandler(i, method)

\* `await setupPinecone()` resumes: createEnhancedHRCopilotAgent compiles a
\* pipeline object, or one of the two throws and the catch block answers 500
InterleavedSetupPinecone ==
    \E i \in 1..MaxInvocations : \E ok \in BOOLEAN :
        /\ running[i].pc = "await setupPinecone"
        /\ IF ok
           THEN /\ constructed' = constructed + 1
                /\ running' = [ running EXCEPT
                                  ![i].pc = "await createEnhancedHRCopilotAgent",
                                  ![i].built = constructed + 1 ]
           ELSE /\ constructed' = constructed
                /\ running' = [ running EXCEPT ![i].pc = "responded",
                                               ![i].status = 500 ]
        /\ UNCHANGED hrCopilot
        /\ UNCHANGED sequentialVars

\* `hrCopilot = await createEnhancedHRCopilotAgent(pinecone)` resumes: the
\* assignment, and initialize() returns
InterleavedAssign ==
    \E i \in 1..MaxInvocations :
        /\ running[i].pc = "await createEnhancedHRCopilotAgent"
        /\ hrCopilot' = running[i].built
        /\ running' = [ running EXCEPT ![i].pc = "await initialize" ]
        /\ UNCHANGED constructed
        /\ UNCHANGED sequentialVars

\* `await initialize()` resumes: hrCopilot.invoke is called on whatever
\* object hrCopilot holds now
InterleavedInvoke ==
    \E i \in 1..MaxInvocations :
        /\ running[i].pc = "await initialize"
        /\ running' = [ running EXCEPT ![i].pc = "await hrCopilot.invoke",
                                       ![i].pipeline = hrCopilot ]
        /\ UNCHANGED << hrCopilot, constructed >>
        /\ UNCHANGED sequentialVars

\* invoke settles and the handler answers 200, or 500 from its catch block
InterleavedRespond ==
    \E i \in 1..MaxInvocations : \E status \in {200, 500} :
        /\ running[i].pc = "await hrCopilot.invoke"
        /\ running' = [ running EXCEPT ![i].pc = "responded",
                                       ![i].status = status ]
        /\ UNCHANGED << hrCopilot, constructed >>
        /\ UNCHANGED sequentialVars

InitInterleaved == Init /\ variant = "main"

NextInterleaved ==
    \/ InterleavedHandlerEntry
    \/ InterleavedSetupPinecone
    \/ InterleavedAssign
    \/ InterleavedInvoke
    \/ InterleavedRespond

SpecInterleaved == InitInterleaved /\ [][NextInterleaved]_vars

-----------------------------------------------------------------------------
(* Properties *)

SeqToSet(s) == { s[i] : i \in DOMAIN s }

IsPrefix(a, b) == Len(a) <= Len(b) /\ SubSeq(b, 1, Len(a)) = a

Categories == { "POLICY", "LEAVE", "COMPENSATION", "TRAINING", "GENERAL" }

Responded == pc = "responded" /\ res # None

Succeeded == Responded /\ Get(res).status = 200

Failed == Responded /\ Get(res).status = 500

Ran(node) == node \in SeqToSet(steps)

\* the message carried by a failure response
ErrorMessage(r) == IF variant = "main" THEN r.body.error ELSE r.body.details

\* the keyword table of the classifier contract, first matching rule wins
ContractCategory(q) ==
    LET Has(kw) == includes(toLowerCase(q), kw) IN
    IF Has("policy") \/ Has("handbook") THEN "POLICY"
    ELSE IF Has("leave") \/ Has("vacation") THEN "LEAVE"
    ELSE IF Has("salary") \/ Has("compensation") THEN "COMPENSATION"
    ELSE IF Has("training") \/ Has("development") THEN "TRAINING"
    ELSE "GENERAL"

\* C1: in every variant, once categorize has returned, the category is the one
\* the keyword table gives for the query: POLICY, else LEAVE, else
\* COMPENSATION, else TRAINING, else GENERAL.
C1_ClassifierContract ==
    "categorize" \in completed =>
        state.category = Some(ContractCategory(Get(state.query)))

-----------------------------------------------------------------------------
\* the retriever nodes of a variant, in the order the edges run them
RetrieverNodes(v) ==
    IF v = "simplified" THEN << "pinecone_query" >>
    ELSE << "pinecone_query", "llamaindex_query" >>

ResultChannel(node) ==
    IF node = "pinecone_query" THEN "pinecone_result" ELSE "llamaindex_result"

ToolOf(node) ==
    IF node = "pinecone_query" THEN "pinecone" ELSE "llamaindex"

\* retrieved[]: one entry per retriever of the variant
Retrieved ==
    [ i \in 1..Len(RetrieverNodes(variant)) |->
        state[ResultChannel(RetrieverNodes(variant)[i])] ]

Scenario1 ==
    /\ Responded
    /\ state.query = Some("What is our leave policy?")
    /\ toolret.pinecone = Some(DocText)
    /\ toolret.llamaindex = Some(NotFound)

\* C2 as stated: scenario 1 ends with category LEAVE and
\* retrieved = [text, not-found sentinel].
C2_Scenario1Leave ==
    Scenario1 =>
        /\ state.category = Some("LEAVE")
        /\ Retrieved = << Some(DocText), Some(NotFound) >>

\* C2 amended: scenario 1 ends with category POLICY (the POLICY rule is tested
\* first) and retrieved = [text, not-found sentinel] in that order.
C2_Scenario1Policy ==
    Scenario1 =>
        /\ state.category = Some("POLICY")
        /\ Retrieved = << Some(DocText), Some(NotFound) >>

C2_Witness == Scenario1 /\ Succeeded

-----------------------------------------------------------------------------
\* C3: category is never written by a node other than categorize and never
\* written twice; it is absent exactly while unwritten; once categorize has
\* returned it has been written exactly once and is one of the five categories.
C3_CategoryWrittenOnce ==
    /\ writes.category \in { << >>, << "categorize" >> }
    /\ (state.category = None) <=> (writes.category = << >>)
    /\ state.category # None => Get(state.category) \in Categories
    /\ "categorize" \in completed =>
          /\ writes.category = << "categorize" >>
          /\ calls.classify = 1
          /\ state.category # None

C3_Witness ==
    /\ Succeeded
    /\ writes.category = << "categorize" >>
    /\ state.category = Some("COMPENSATION")
    /\ Ran("respond")

-----------------------------------------------------------------------------
PineconeFailed ==
    outcome.pinecone # None /\ Get(outcome.pinecone).kind = "throws"

LlamaIndexFailed ==
    /\ outcome.llamaindex # None
    /\ \/ Get(outcome.llamaindex).init \notin {"ok", "skipped"}
       \/ Get(outcome.llamaindex).query = "throws"

\* C4: when a knowledge source fails, the retriever's node still returns, its
\* _call returns its error sentinel, which becomes the node's result; the run
\* goes on with the next node, and it cannot end without respond having run.
C4_RetrieverFailureIsSentinel ==
    /\ PineconeFailed =>
          /\ "pinecone_query" \in completed
          /\ toolret.pinecone = Some(PineconeError)
          /\ state.pinecone_result = Some(PineconeError)
          /\ pc \in { Edges(variant)["pinecone_query"], "respond",
                      "update_conversation_history", "END", "responded" }
    /\ LlamaIndexFailed =>
          /\ "llamaindex_query" \in completed
          /\ toolret.llamaindex = Some(LlamaIndexError)
          /\ state.llamaindex_result = Some(LlamaIndexError)
          /\ pc \in { "respond", "update_conversation_history", "END", "responded" }
    /\ (PineconeFailed \/ LlamaIndexFailed) /\ Responded => Ran("respond")

C4_Witness ==
    /\ PineconeFailed
    /\ LlamaIndexFailed
    /\ Get(outcome.llamaindex).init = "fetchDocumentsFromAppwrite throws"
    /\ Succeeded

-----------------------------------------------------------------------------
\* C5: whenever respond is about to run or has run, the retriever nodes that
\* ran are exactly the variant's retrievers in the order Pinecone, LlamaIndex,
\* each was called once, returned, and wrote its result exactly once, so
\* retrieved[] has one entry per retriever and none is absent.
C5_RetrievedCompleteAtRespond ==
    (pc = "respond" \/ Ran("respond")) =>
        /\ SelectSeq(steps, LAMBDA n : n \in SeqToSet(RetrieverNodes(variant)))
             = RetrieverNodes(variant)
        /\ Len(RetrieverNodes(variant)) = Len(Tools(variant)) - 1
        /\ \A i \in 1..Len(RetrieverNodes(variant)) :
             LET node == RetrieverNodes(variant)[i] IN
             /\ node \in completed
             /\ writes[ResultChannel(node)] = << node >>
             /\ calls[ToolOf(node)] = 1
             /\ Retrieved[i] # None
             /\ Retrieved[i] = toolret[ToolOf(node)]
        /\ Len(Retrieved) = Len(RetrieverNodes(variant))

C5_Witness ==
    /\ pc = "respond"
    /\ variant = "enhanced"
    /\ PineconeFailed
    /\ ~LlamaIndexFailed
    /\ Retrieved = << Some(PineconeError), Some(DocText) >>

-----------------------------------------------------------------------------
FixedOrder ==
    << "fetch_employee_context", "categorize", "pinecone_query", "llamaindex_query",
       "respond", "update_conversation_history" >>

\* the fixed order restricted to the nodes the variant's graph has
Path(v) == SelectSeq(FixedOrder, LAMBDA n : n \in DOMAIN Edges(v))

\* C6: the nodes a run has executed are always an initial part of the fixed
\* order (so each at most once), the node about to run is the next one of that
\* order, and END is reached only after all of them; the order does not depend
\* on the category.
C6_FixedOrder ==
    /\ IsPrefix(steps, Path(variant))
    /\ pc \in SeqToSet(FixedOrder) =>
          Len(steps) < Len(Path(variant)) /\ pc = Path(variant)[Len(steps) + 1]
    /\ pc = "END" => steps = Path(variant)
    /\ Succeeded => steps = Path(variant)
    /\ variant \in {"main", "enhanced"} => Path(variant) = FixedOrder

C6_Witness ==
    /\ Succeeded
    /\ variant = "enhanced"
    /\ steps = FixedOrder
    /\ state.category = Some("LEAVE")

-----------------------------------------------------------------------------
\* C7: a successful run whose input carried a history h ends with
\* conversation_history = h, then {user, query}, then {assistant, final_response}.
C7_HistoryGrowsByTwo ==
    (Succeeded /\ Get(input).conversation_history # None) =>
        LET h == Get(Get(input).conversation_history) IN
        /\ state.conversation_history # None
        /\ Len(Get(state.conversation_history)) = Len(h) + 2
        /\ Get(state.conversation_history) =
             h \o << [role |-> "user", content |-> Get(Get(input).query)],
                     [role |-> "assistant", content |-> Get(state.final_response)] >>

C7_Witness ==
    /\ Succeeded
    /\ Get(input).conversation_history # None
    /\ Len(Get(Get(input).conversation_history)) = 2
    /\ Len(Get(state.conversation_history)) = 4

-----------------------------------------------------------------------------
ModelThrew == outcome.model # None /\ Get(outcome.model).throws

\* C8: when the backend call of respond throws, the handler has answered with
\* status 500 and the backend's message, the body has no success field,
\* final_response is absent, update_conversation_history has not run and
\* conversation_history is the one the run started with.
C8_BackendFailureIs500 ==
    ModelThrew =>
        /\ Responded
        /\ Get(res).status = 500
        /\ ErrorMessage(Get(res)) = Get(outcome.model).message
        /\ DOMAIN Get(res).body \cap {"final_response", "result", "category"} = {}
        /\ state.final_response = None
        /\ ~Ran("update_conversation_history")
        /\ state.conversation_history = Get(input).conversation_history

C8_Witness ==
    /\ ModelThrew
    /\ Failed
    /\ Get(input).conversation_history # None
    /\ Len(Get(Get(input).conversation_history)) = 2

-----------------------------------------------------------------------------
\* C9: final_response is set exactly when respond has run and returned, which
\* is exactly when the backend answered without throwing; no other node
\* writes it.
C9_FinalResponseIffRespond ==
    /\ (state.final_response # None) <=> ("respond" \in completed)
    /\ ("respond" \in completed) <=>
          (outcome.model # None /\ ~Get(outcome.model).throws)
    /\ writes.final_response \in { << >>, << "respond" >> }
    /\ (writes.final_response = << "respond" >>) <=> ("respond" \in completed)

C9_Witness ==
    /\ Failed
    /\ "respond" \in completed
    /\ state.final_response = Some(DocText)
    /\ steps[Len(steps)] = "update_conversation_history"

-----------------------------------------------------------------------------
\* C10: an invocation whose method is not POST has been answered with 405 and
\* has made no call: no pipeline construction, no classifier, retriever,
\* backend or ticket call, and no node has run.
C10_NonPostIs405 ==
    (req # None /\ Get(req).method # "POST") =>
        /\ Responded
        /\ Get(res).status = 405
        /\ calls = NoCalls
        /\ steps = << >>

-----------------------------------------------------------------------------
\* the invocation is a POST whose body has no query field
MissingQuery ==
    /\ req # None
    /\ Get(req).method = "POST"
    /\ Get(req).body # None
    /\ Get(Get(req).body).query = None

\* the pipeline object the invocation would call exists
PipelineReady == IF variant = "main" THEN hrCopilot # 0 ELSE agent # 0

\* C11: a POST whose body lacks query is rejected with a 4xx status and the
\* pipeline never runs: no step is executed for it.  (Stated for invocations
\* whose pipeline object exists, so that a failed construction is not what
\* is observed.)
C11_MissingQueryIs4xx ==
    (MissingQuery /\ PipelineReady) =>
        /\ steps = << >>
        /\ Responded => Get(res).status \in 400..499

-----------------------------------------------------------------------------
\* C13: a run ends with success with exactly one ticket (priority high, status
\* open, its id in the response) when final_response contains "contact hr" in
\* any letter case, and with no ticket otherwise; no ticket exists before the
\* pipeline has ended or after a failure; createTicket is called at most once.
\* Stated for every handler variant.
C13_TicketIffContactHR ==
    /\ calls.createTicket <= 1
    /\ Cardinality(tickets) = calls.createTicket
    /\ ~Succeeded => tickets = {}
    /\ (Succeeded /\ ~NeedsTicket(state)) => tickets = {}
    /\ (Succeeded /\ NeedsTicket(state)) =>
          /\ Cardinality(tickets) = 1
          /\ \A t \in tickets :
               /\ t.priority = "high"
               /\ t.status = "open"
               /\ "ticketId" \in DOMAIN Get(res).body
               /\ Get(res).body.ticketId = Some(t.id)

-----------------------------------------------------------------------------
\* C14: fetch_employee_context never fails, whatever employee_context the
\* caller gave (absent included), and from then on employee_context is the
\* caller's value.
C14_EmployeeContextPassThrough ==
    /\ Ran("fetch_employee_context") =>
          /\ "fetch_employee_context" \in completed
          /\ state.employee_context = Get(input).employee_context
    /\ writes.employee_context \in { << >>, << "fetch_employee_context" >> }

-----------------------------------------------------------------------------
\* C16: update_conversation_history never fails, also when the input had no
\* conversation_history; a run that reaches it reaches END and succeeds.
C16_HistoryUpdaterNeverFails ==
    Ran("update_conversation_history") =>
        /\ "update_conversation_history" \in completed
        /\ pc \in { "END", "responded" }
        /\ Responded => Succeeded

-----------------------------------------------------------------------------
\* the Pinecone lookup answered and its top match has a text
PineconeHasResult ==
    /\ outcome.pinecone # None
    /\ Get(outcome.pinecone).kind = "response"
    /\ Truthy(TopMatchText(Get(outcome.pinecone)))

\* the Pinecone lookup answered with no match or a top match without text
PineconeNoResult ==
    /\ outcome.pinecone # None
    /\ Get(outcome.pinecone).kind = "response"
    /\ ~Truthy(TopMatchText(Get(outcome.pinecone)))

\* the LlamaIndex engine answered and had nothing for the query
LlamaIndexNoResult ==
    /\ outcome.llamaindex # None
    /\ ~LlamaIndexFailed
    /\ Get(outcome.llamaindex).text = Some(EmptyResponse)

LlamaIndexHasResult ==
    /\ outcome.llamaindex # None
    /\ ~LlamaIndexFailed
    /\ Get(outcome.llamaindex).text # Some(EmptyResponse)

\* C15: every retriever whose lookup succeeded without a result has returned
\* 'No relevant information found.', which differs from its error sentinel;
\* a retriever whose lookup succeeded with a result has returned that text.
C15_NoResultIsNotFound ==
    /\ NotFound # PineconeError
    /\ NotFound # LlamaIndexError
    /\ PineconeNoResult => toolret.pinecone = Some(NotFound)
    /\ PineconeHasResult =>
          toolret.pinecone = TopMatchText(Get(outcome.pinecone))
    /\ LlamaIndexNoResult => toolret.llamaindex = Some(NotFound)
    /\ LlamaIndexHasResult => toolret.llamaindex = Get(outcome.llamaindex).text

-----------------------------------------------------------------------------
\* C18: in the main variant, a _call of LlamaIndexTool that finds index unset
\* attempts initialisation; when that fails the call returns the LlamaIndex
\* error sentinel and index stays unset (so the next call attempts it again),
\* when it succeeds index is built; a _call that finds index built does not
\* initialise and leaves it built; no other step changes a built index.
C18_LazyIndex ==
    [][ /\ (variant = "main" /\ pc = "llamaindex_query") =>
              LET out == Get(outcome'.llamaindex) IN
              /\ llamaIndex = "unset" =>
                    /\ out.init # "skipped"
                    /\ out.init # "ok" =>
                          /\ toolret'.llamaindex = Some(LlamaIndexError)
                          /\ llamaIndex' = "unset"
                    /\ out.init = "ok" => llamaIndex' = "built"
              /\ llamaIndex = "built" =>
                    /\ out.init = "skipped"
                    /\ llamaIndex' = "built"
        /\ llamaIndex = "built" => llamaIndex' = "built"
      ]_vars

\* a second invocation's _call has used the index the first one built
C18_Witness ==
    /\ variant = "main"
    /\ requests = 2
    /\ llamaIndex = "built"
    /\ outcome.llamaindex # None
    /\ Get(outcome.llamaindex).init = "skipped"
    /\ toolret.llamaindex = Some(DocText)

\* a second invocation's _call builds the index, which was still unset
C18_WitnessRetry ==
    /\ variant = "main"
    /\ requests = 2
    /\ hrCopilot = 1
    /\ calls.construct = 0
    /\ llamaIndex = "built"
    /\ outcome.llamaindex # None
    /\ Get(outcome.llamaindex).init = "ok"

-----------------------------------------------------------------------------
\* C17: over invocations whose initialize() executions interleave, at most
\* one pipeline object is ever compiled, hrCopilot once set is that object,
\* and all invocations that have called hrCopilot.invoke called it on the
\* same object.
C17_PipelineConstructedOnce ==
    /\ constructed <= 1
    /\ hrCopilot \in {0, 1}
    /\ \A i, j \in 1..MaxInvocations :
         (running[i].pipeline # 0 /\ running[j].pipeline # 0) =>
             running[i].pipeline = running[j].pipeline

-----------------------------------------------------------------------------
\* no node appears twice among the executed steps
NoStepTwice ==
    \A i, j \in DOMAIN steps : steps[i] = steps[j] => i = j

=============================================================================
